---- MODULE Spec2Model ----
(***************************************************************************)
(* jql-to-plan: the plan-graph builder of internal/omniplan.               *)
(*                                                                         *)
(* Serializer.buildScenario and Serializer.buildTasksFromTickets turn a    *)
(* sequence of Jira tickets into OmniPlan resources and tasks.  The build  *)
(* is modelled phase by phase (one action per loop of the source); the     *)
(* process-wide idCounter, the Go maps and the slices of the source are    *)
(* the state.  Iterating a Go map visits its keys in an unspecified order, *)
(* so every `range` over a map is a choice over the orders of its keys.    *)
(***************************************************************************)
EXTENDS Integers, Sequences, FiniteSets, TLC

(***************************************************************************)
(* Bounds of the explored inputs.                                          *)
(***************************************************************************)
MaxTickets == 2
MaxDeps == 2

(***************************************************************************)
(* Generic helpers: Go maps are functions, Go slices are sequences.        *)
(***************************************************************************)
EmptyMap == [k \in {} |-> ""]

Put(m, k, v) == [x \in DOMAIN m \cup {k} |-> IF x = k THEN v ELSE m[x]]

Range(s) == {s[i] : i \in DOMAIN s}

\* all orders in which a `range` over a map with key set S may visit S
Orders(S) == {o \in [1..Cardinality(S) -> S] :
                \A i, j \in 1..Cardinality(S) : i # j => o[i] # o[j]}

SeqsUpTo(S, n) == UNION {[1..k -> S] : k \in 0..n}

RECURSIVE SumLen(_, _)
SumLen(f, n) == IF n = 0 THEN 0 ELSE Len(f[n]) + SumLen(f, n - 1)

(***************************************************************************)
(* Identifiers: fmt.Sprintf over the value returned by idCounter.Add(1).   *)
(***************************************************************************)
GenerateIDOf(n) == "gen" \o ToString(n)
ResourceIDOf(n) == "r" \o ToString(n)
TaskIDOf(n) == "t" \o ToString(n)

topResourceID == "r-1"
topTaskID == "t-1"
Namespace == "http://www.omnigroup.com/namespace/OmniPlan/v2"

Reference(id) == [IDRef |-> id]
PrerequisiteTask(id) == [IDRef |-> id, Kind |-> ""]
UserDataItem(k, v) == [Key |-> k, Value |-> v]

(***************************************************************************)
(* Inputs.  A ticket is a jira.Ticket; EffortDays is the rational          *)
(* <<numerator, denominator>> of the float64 field.                        *)
(***************************************************************************)
TicketKeys == <<"A", "B", "C", "D">>
MissingKey == "Z"
DepKeyChoices == {"A", "B", MissingKey}
EpicKeyChoices == {"", "E1", "E2"}

Ticket(key, summary, assignee, status, effort, epic, deps) ==
  [Key |-> key, Summary |-> summary, Link |-> "https://jira/browse/" \o key,
   Assignee |-> assignee, Status |-> status, EffortDays |-> effort,
   EpicLink |-> epic, DependencyKeys |-> deps]

\* summary, assignee, status and effort of the tickets of the plain inputs
Profiles ==
  { [Summary |-> "Fix login", Assignee |-> "alice", Status |-> "Open", EffortDays |-> <<2, 1>>],
    [Summary |-> "Done", Assignee |-> "", Status |-> "Closed", EffortDays |-> <<0, 1>>],
    [Summary |-> "Write docs", Assignee |-> "bob", Status |-> "Open", EffortDays |-> <<1, 43200>>],
    [Summary |-> "Review", Assignee |-> "alice", Status |-> "In Progress", EffortDays |-> <<5, 1>>] }

\* tickets without dependencies: every profile under every epic link
PlainTickets(n) ==
  { [i \in 1..n |-> Ticket(TicketKeys[i], pe[i][1].Summary, pe[i][1].Assignee,
                           pe[i][1].Status, pe[i][1].EffortDays, pe[i][2], <<>>)] :
      pe \in [1..n -> Profiles \X EpicKeyChoices] }

\* tickets with at most MaxDeps dependency keys in all; the tickets at odd
\* positions belong to epic E1, the others to no epic
LinkedTickets(n) ==
  { [i \in 1..n |-> Ticket(TicketKeys[i], "Task " \o TicketKeys[i], "carol", "Open",
                           <<1, 1>>, IF i % 2 = 1 THEN "E1" ELSE "", d[i])] :
      d \in { f \in [1..n -> SeqsUpTo(DepKeyChoices, MaxDeps)] :
                SumLen(f, n) \in 1..MaxDeps } }

\* tickets that all carry the same key, each depending on that key or on nothing
RepeatedKeyTickets(n) ==
  IF n < 2 THEN {}
  ELSE { [i \in 1..n |-> Ticket(TicketKeys[1], "Copy " \o ToString(i), "carol", "Open",
                                <<1, 1>>, "", d[i])] :
           d \in [1..n -> {<<>>, <<TicketKeys[1]>>}] }

TicketInputs ==
  UNION {PlainTickets(n) \cup LinkedTickets(n) \cup RepeatedKeyTickets(n) : n \in 0..MaxTickets}

\* the epic lookup GetTickets returns: E1 was fetched, E2 was not
EpicInputs ==
  { EmptyMap,
    "E1" :> [Key |-> "E1", Summary |-> "Platform", Link |-> "https://jira/browse/E1",
             Assignee |-> "", Status |-> "In Progress", EffortDays |-> <<0, 1>>,
             EpicLink |-> "", DependencyKeys |-> <<>>] }


ProjectName == "Plan"

VARIABLES
  tickets,               \* []jira.Ticket handed to Serialize
  epics,                 \* map[string]jira.Ticket handed to Serialize
  GroupByEpic,           \* Serializer.GroupByEpic
  MilestoneDone,         \* Serializer.MilestoneDone
  idCounter,             \* the package-level atomic counter
  pc,                    \* position of the build
  scenarioID,
  assigneeToResourceID, staffResources, childResourceRefs,
  jiraKeyToTaskID, taskPtrs, epicToChildRefs, epicTasks, epicMilestones,
  tasks, refs,
  stdout,                \* the fmt.Printf calls made so far
  scenario,              \* the *Scenario returned by buildScenario
  run,                   \* 1 in the first execution, 2 in the repeated one
  first                  \* the scenario the first execution returned

\* the rest of the program: the callers of the counter, Serialize's writes,
\* the two commands and the Jira client
VARIABLES
  issued,                \* per caller, what idCounter.Add(1) has returned to it
  serializePC,           \* position of Serialize once the scenario is built
  sink,                  \* the Write calls the io.Writer has received
  serializeErr,          \* what Serialize returned
  cmdPC,                 \* position of the running command
  exitStatus,            \* exit status of the process
  loaded,                \* what config.Load returns
  epicGroup,             \* --epic-group
  milestoneDone,         \* --milestone-done
  effects,               \* what the command has done outside the process
  machine,               \* home directory, $EDITOR and runtime.GOOS
  configFile,            \* the file at the config path
  matching,              \* the issues on the server that match the JQL
  issues,                \* what Issue.Search answered to the JQL
  clientPC,              \* position of GetTickets
  clientErr              \* the error GetTickets returned

buildVars == <<tickets, epics, GroupByEpic, MilestoneDone, idCounter, pc, scenarioID,
               assigneeToResourceID, staffResources, childResourceRefs,
               jiraKeyToTaskID, taskPtrs, epicToChildRefs, epicTasks, epicMilestones,
               tasks, refs, stdout, scenario, run, first>>

serializeVars == <<serializePC, sink, serializeErr>>

commandVars == <<cmdPC, exitStatus, loaded, epicGroup, milestoneDone, effects,
                 machine, configFile>>

clientVars == <<matching, issues, clientPC, clientErr>>

\* what the build of a scenario leaves alone
rest == <<issued, serializeVars, commandVars, clientVars>>

vars == <<buildVars, rest>>

inputs == <<tickets, epics, GroupByEpic, MilestoneDone>>

NoScenario ==
  [XMLNS |-> "", OPNS |-> "", ID |-> "", Granularity |-> "",
   TopResource |-> Reference(""), Resources |-> <<>>,
   TopTask |-> Reference(""), Tasks |-> <<>>, CriticalPaths |-> <<>>]

(***************************************************************************)
(* buildScenario, lines 51-73: the scenario id and the Staff resources.    *)
(***************************************************************************)
StaffResource(resourceID, name) ==
  [ID |-> resourceID, Name |-> name, Type |-> "Staff", ChildResources |-> <<>>]

\* faulty variant of ResourceStep: a resource for every ticket with an assignee,
\* whether or not the assignee already has one
ResourceStepPerTicket(acc, ticket) ==
  IF ticket.Assignee # ""
  THEN LET resourceID == ResourceIDOf(acc.idCounter + 1)
       IN  [idCounter |-> acc.idCounter + 1,
            assigneeToResourceID |-> Put(acc.assigneeToResourceID, ticket.Assignee, resourceID),
            staffResources |-> Append(acc.staffResources, StaffResource(resourceID, ticket.Assignee)),
            childResourceRefs |-> Append(acc.childResourceRefs, Reference(resourceID))]
  ELSE acc

\* one iteration of the loop over tickets; acc holds the loop's variables
ResourceStep(acc, ticket) ==
  IF ticket.Assignee # "" /\ ticket.Assignee \notin DOMAIN acc.assigneeToResourceID
  THEN LET resourceID == ResourceIDOf(acc.idCounter + 1)
       IN  [idCounter |-> acc.idCounter + 1,
            assigneeToResourceID |-> Put(acc.assigneeToResourceID, ticket.Assignee, resourceID),
            staffResources |-> Append(acc.staffResources, StaffResource(resourceID, ticket.Assignee)),
            childResourceRefs |-> Append(acc.childResourceRefs, Reference(resourceID))]
  ELSE acc

RECURSIVE ResourceLoop(_, _, _)
ResourceLoop(ts, i, acc) ==
  IF i > Len(ts) THEN acc ELSE ResourceLoop(ts, i + 1, ResourceStep(acc, ts[i]))

(***************************************************************************)
(* buildTasksFromTickets, lines 142-184: one leaf task per ticket.         *)
(***************************************************************************)
SecondsPerDay == 28800

\* int64(ticket.EffortDays * 8 * 3600), or the default of 8 hours
Effort(ticket) ==
  IF ticket.EffortDays[1] > 0
  THEN (ticket.EffortDays[1] * 8 * 3600) \div ticket.EffortDays[2]
  ELSE SecondsPerDay

Assignments(ticket, resourceOf) ==
  IF ticket.Assignee # "" /\ ticket.Assignee \in DOMAIN resourceOf
  THEN <<Reference(resourceOf[ticket.Assignee])>>
  ELSE <<>>

\* faulty variant of LeafTask: the annotation block carries the epic link as key
LeafTaskKeyedByEpic(ticket, taskID, resourceOf) ==
  [ID |-> taskID, Title |-> ticket.Summary, Type |-> "", Effort |-> Effort(ticket),
   Recalculate |-> "duration", StaticCost |-> 0, ChildTasks |-> <<>>,
   UserData |-> <<UserDataItem("Jira Key", ticket.EpicLink),
                  UserDataItem("Jira Link", ticket.Link),
                  UserDataItem("Jira Status", ticket.Status)>>,
   Prerequisites |-> <<>>,
   Assignments |-> Assignments(ticket, resourceOf)]

LeafTask(ticket, taskID, resourceOf) ==
  [ID |-> taskID, Title |-> ticket.Summary, Type |-> "", Effort |-> Effort(ticket),
   Recalculate |-> "duration", StaticCost |-> 0, ChildTasks |-> <<>>,
   UserData |-> <<UserDataItem("Jira Key", ticket.Key),
                  UserDataItem("Jira Link", ticket.Link),
                  UserDataItem("Jira Status", ticket.Status)>>,
   Prerequisites |-> <<>>,
   Assignments |-> Assignments(ticket, resourceOf)]

\* faulty variant of RouteLeaf: a grouped task is kept at the top level as well
RouteLeafBoth(acc, groupByEpic, ticket, taskID) ==
  IF groupByEpic /\ ticket.EpicLink # ""
  THEN [acc EXCEPT !.epicToChildRefs =
          Put(@, ticket.EpicLink,
              Append(IF ticket.EpicLink \in DOMAIN @ THEN @[ticket.EpicLink] ELSE <<>>,
                     Reference(taskID))),
                   !.refs = Append(@, Reference(taskID))]
  ELSE [acc EXCEPT !.refs = Append(@, Reference(taskID))]

\* lines 177-183: the task goes to its epic's children or to the top level
RouteLeaf(acc, groupByEpic, ticket, taskID) ==
  IF groupByEpic /\ ticket.EpicLink # ""
  THEN [acc EXCEPT !.epicToChildRefs =
          Put(@, ticket.EpicLink,
              Append(IF ticket.EpicLink \in DOMAIN @ THEN @[ticket.EpicLink] ELSE <<>>,
                     Reference(taskID)))]
  ELSE [acc EXCEPT !.refs = Append(@, Reference(taskID))]

LeafStep(acc, groupByEpic, resourceOf, ticket) ==
  LET taskID == TaskIDOf(acc.idCounter + 1)
      made == [acc EXCEPT !.idCounter = @ + 1,
                          !.jiraKeyToTaskID = Put(@, ticket.Key, taskID),
                          !.taskPtrs = Append(@, LeafTask(ticket, taskID, resourceOf))]
  IN  RouteLeaf(made, groupByEpic, ticket, taskID)

RECURSIVE LeafLoop(_, _, _, _, _)
LeafLoop(ts, i, groupByEpic, resourceOf, acc) ==
  IF i > Len(ts) THEN acc
  ELSE LeafLoop(ts, i + 1, groupByEpic, resourceOf,
                LeafStep(acc, groupByEpic, resourceOf, ts[i]))

(***************************************************************************)
(* buildTasksFromTickets, lines 187-236: epic groups and their milestones. *)
(***************************************************************************)
\* faulty variant of EpicSummary: no fallback to the epic key
EpicSummaryOfRecordOnly(epicKey, epicMap) ==
  IF epicKey \in DOMAIN epicMap THEN epicMap[epicKey].Summary ELSE ""

\* lines 190-197: the epic's summary, or its key when the epic is not in the map
EpicSummary(epicKey, epicMap) ==
  IF epicKey \in DOMAIN epicMap THEN epicMap[epicKey].Summary ELSE epicKey

EpicGroupTask(epicKey, groupID, children, epicMap) ==
  LET known == epicKey \in DOMAIN epicMap
  IN  [ID |-> groupID, Title |-> EpicSummary(epicKey, epicMap), Type |-> "group",
       Effort |-> 0, Recalculate |-> "duration", StaticCost |-> 0,
       ChildTasks |-> children,
       UserData |-> <<UserDataItem("Jira Key", epicKey),
                      UserDataItem("Jira Link", IF known THEN epicMap[epicKey].Link ELSE ""),
                      UserDataItem("Jira Status", IF known THEN epicMap[epicKey].Status ELSE "")>>,
       Prerequisites |-> <<>>, Assignments |-> <<>>]

EpicMilestoneTask(epicKey, milestoneID, groupID, epicMap) ==
  [ID |-> milestoneID, Title |-> EpicSummary(epicKey, epicMap) \o " Done",
   Type |-> "milestone", Effort |-> 0, Recalculate |-> "duration", StaticCost |-> 0,
   ChildTasks |-> <<>>, UserData |-> <<>>,
   Prerequisites |-> <<PrerequisiteTask(groupID)>>, Assignments |-> <<>>]

\* faulty variant of EpicStep: the milestone is not made a top-level reference
EpicStepGroupOnly(acc, epicKey, children, epicMap) ==
  LET groupID == TaskIDOf(acc.idCounter + 1)
      milestoneID == TaskIDOf(acc.idCounter + 2)
      groupTask == EpicGroupTask(epicKey, groupID, children, epicMap)
      milestoneTask == EpicMilestoneTask(epicKey, milestoneID, groupID, epicMap)
  IN  [idCounter |-> acc.idCounter + 2,
       epicTasks |-> Put(acc.epicTasks, epicKey, groupTask),
       epicMilestones |-> Put(acc.epicMilestones, epicKey, milestoneTask),
       tasks |-> acc.tasks \o <<groupTask, milestoneTask>>,
       refs |-> acc.refs \o <<Reference(groupID)>>]

\* the body of the loop over epicToChildRefs, for one epic key
EpicStep(acc, epicKey, children, epicMap) ==
  LET groupID == TaskIDOf(acc.idCounter + 1)
      milestoneID == TaskIDOf(acc.idCounter + 2)
      groupTask == EpicGroupTask(epicKey, groupID, children, epicMap)
      milestoneTask == EpicMilestoneTask(epicKey, milestoneID, groupID, epicMap)
  IN  [idCounter |-> acc.idCounter + 2,
       epicTasks |-> Put(acc.epicTasks, epicKey, groupTask),
       epicMilestones |-> Put(acc.epicMilestones, epicKey, milestoneTask),
       tasks |-> acc.tasks \o <<groupTask, milestoneTask>>,
       refs |-> acc.refs \o <<Reference(groupID), Reference(milestoneID)>>]

\* the loop, visiting the keys of epicToChildRefs in the order `order`
RECURSIVE EpicLoop(_, _, _, _, _)
EpicLoop(order, i, childrenOf, epicMap, acc) ==
  IF i > Len(order) THEN acc
  ELSE EpicLoop(order, i + 1, childrenOf, epicMap,
                EpicStep(acc, order[i], childrenOf[order[i]], epicMap))

(***************************************************************************)
(* buildTasksFromTickets, lines 239-277: the final "Done" milestone.       *)
(***************************************************************************)
\* lines 244-262; `order` is the order in which epicMilestones is visited
DonePrereqs(groupByEpic, order, milestoneOf, built) ==
  IF groupByEpic
  THEN [i \in 1..Len(order) |-> PrerequisiteTask(milestoneOf[order[i]].ID)]
  ELSE LET ms == SelectSeq(built, LAMBDA t : t.Type = "milestone")
       IN  [i \in 1..Len(ms) |-> PrerequisiteTask(ms[i].ID)]

DoneTask(milestoneID, donePrereqs) ==
  [ID |-> milestoneID, Title |-> "Done", Type |-> "milestone", Effort |-> 0,
   Recalculate |-> "duration", StaticCost |-> 0, ChildTasks |-> <<>>,
   UserData |-> <<>>, Prerequisites |-> donePrereqs, Assignments |-> <<>>]

\* faulty variant of DoneStep: the milestone is created without prerequisites too
DoneStepAlways(acc, donePrereqs) ==
  LET milestoneID == TaskIDOf(acc.idCounter + 1)
  IN  [idCounter |-> acc.idCounter + 1,
       tasks |-> Append(acc.tasks, DoneTask(milestoneID, donePrereqs)),
       refs |-> Append(acc.refs, Reference(milestoneID))]

\* lines 264-276
DoneStep(acc, donePrereqs) ==
  IF Len(donePrereqs) > 0
  THEN LET milestoneID == TaskIDOf(acc.idCounter + 1)
       IN  [idCounter |-> acc.idCounter + 1,
            tasks |-> Append(acc.tasks, DoneTask(milestoneID, donePrereqs)),
            refs |-> Append(acc.refs, Reference(milestoneID))]
  ELSE acc

(***************************************************************************)
(* buildTasksFromTickets, lines 280-294: dependency resolution.            *)
(***************************************************************************)
Warning(ticketKey, depKey) ==
  [format |-> "Warning: Ticket %s depends on %s, but %s was not found in the JQL result set.\n",
   args |-> <<ticketKey, depKey, depKey>>]

\* faulty variants of DepStep: the resolved id is put in front of the list,
\* a miss prints nothing, a miss still adds a prerequisite for the unknown key
DepStepPrepend(acc, ticketKey, depKey, taskIDOf) ==
  IF depKey \in DOMAIN taskIDOf
  THEN [acc EXCEPT !.task.Prerequisites = <<PrerequisiteTask(taskIDOf[depKey])>> \o @]
  ELSE [acc EXCEPT !.stdout = Append(@, Warning(ticketKey, depKey))]

DepStepSilent(acc, ticketKey, depKey, taskIDOf) ==
  IF depKey \in DOMAIN taskIDOf
  THEN [acc EXCEPT !.task.Prerequisites = Append(@, PrerequisiteTask(taskIDOf[depKey]))]
  ELSE acc

DepStepFabricate(acc, ticketKey, depKey, taskIDOf) ==
  IF depKey \in DOMAIN taskIDOf
  THEN [acc EXCEPT !.task.Prerequisites = Append(@, PrerequisiteTask(taskIDOf[depKey]))]
  ELSE [acc EXCEPT !.task.Prerequisites = Append(@, PrerequisiteTask(depKey)),
                   !.stdout = Append(@, Warning(ticketKey, depKey))]

\* lines 286-292, for one dependency key of the ticket whose task is acc.task
DepStep(acc, ticketKey, depKey, taskIDOf) ==
  IF depKey \in DOMAIN taskIDOf
  THEN [acc EXCEPT !.task.Prerequisites = Append(@, PrerequisiteTask(taskIDOf[depKey]))]
  ELSE [acc EXCEPT !.stdout = Append(@, Warning(ticketKey, depKey))]

RECURSIVE DepLoop(_, _, _, _)
DepLoop(ticket, j, taskIDOf, acc) ==
  IF j > Len(ticket.DependencyKeys) THEN acc
  ELSE DepLoop(ticket, j + 1, taskIDOf,
               DepStep(acc, ticket.Key, ticket.DependencyKeys[j], taskIDOf))

\* the outer loop over tickets; acc holds taskPtrs and stdout
RECURSIVE ResolveLoop(_, _, _, _)
ResolveLoop(ts, i, taskIDOf, acc) ==
  IF i > Len(ts) THEN acc
  ELSE LET r == DepLoop(ts[i], 1, taskIDOf,
                        [task |-> acc.taskPtrs[i], stdout |-> acc.stdout])
       IN  ResolveLoop(ts, i + 1, taskIDOf,
                       [taskPtrs |-> [acc.taskPtrs EXCEPT ![i] = r.task],
                        stdout |-> r.stdout])

(***************************************************************************)
(* lines 296-301 and buildScenario, lines 78-124: the composition.         *)
(***************************************************************************)
\* faulty variant of ReturnedTasks: the leaf tasks come first
ReturnedTasksLeavesFirst(built, ptrs) == ptrs \o built

\* lines 297-299: the leaf tasks are appended to the tasks built so far
ReturnedTasks(built, ptrs) == built \o ptrs

TopTask(childTaskRefs) ==
  [ID |-> topTaskID, Title |-> "", Type |-> "group", Effort |-> 0,
   Recalculate |-> "duration", StaticCost |-> 0, ChildTasks |-> childTaskRefs,
   UserData |-> <<>>, Prerequisites |-> <<>>, Assignments |-> <<>>]

ProjectResource(name, childRefs) ==
  [ID |-> topResourceID, Name |-> name, Type |-> "Project", ChildResources |-> childRefs]

CriticalPaths ==
  <<[Root |-> "-1", Enabled |-> "false", Resources |-> "false",
     Color |-> [Space |-> "srgb", R |-> "1", G |-> "0.5", B |-> "0.5"]]>>

Scenario(id, staff, staffRefs, returned, childTaskRefs) ==
  [XMLNS |-> Namespace, OPNS |-> Namespace, ID |-> id, Granularity |-> "days",
   TopResource |-> Reference(topResourceID),
   Resources |-> <<ProjectResource(ProjectName, staffRefs)>> \o staff,
   TopTask |-> Reference(topTaskID),
   Tasks |-> <<TopTask(childTaskRefs)>> \o returned,
   CriticalPaths |-> CriticalPaths]

(***************************************************************************)
(* The state machine.                                                      *)
(***************************************************************************)
\* no concurrent callers of the counter
NoCallers == issued = <<>>

\* Serialize has written nothing yet
SerializeStart ==
  /\ serializePC = "build"
  /\ sink = <<>>
  /\ serializeErr = "pending"

\* no command is running
NoCommand ==
  /\ cmdPC = "none"
  /\ exitStatus = "running"
  /\ loaded = [err |-> "", cfg |-> "nil"]
  /\ epicGroup = FALSE
  /\ milestoneDone = FALSE
  /\ effects = <<>>
  /\ machine = [HomeDir |-> "", EDITOR |-> "", GOOS |-> ""]
  /\ configFile = "absent"

\* GetTickets is not called
NoClient ==
  /\ matching = <<>>
  /\ issues = <<>>
  /\ clientPC = "none"
  /\ clientErr = "pending"

Init ==
  /\ tickets \in TicketInputs
  /\ epics \in EpicInputs
  /\ GroupByEpic \in BOOLEAN
  /\ MilestoneDone \in BOOLEAN
  /\ idCounter = 0
  /\ pc = "start"
  /\ scenarioID = ""
  /\ assigneeToResourceID = EmptyMap
  /\ staffResources = <<>>
  /\ childResourceRefs = <<>>
  /\ jiraKeyToTaskID = EmptyMap
  /\ taskPtrs = <<>>
  /\ epicToChildRefs = EmptyMap
  /\ epicTasks = EmptyMap
  /\ epicMilestones = EmptyMap
  /\ tasks = <<>>
  /\ refs = <<>>
  /\ stdout = <<>>
  /\ scenario = NoScenario
  /\ run = 1
  /\ first = NoScenario
  /\ NoCallers
  /\ SerializeStart
  /\ NoCommand
  /\ NoClient

\* buildScenario, lines 51-73
BuildResources ==
  /\ pc = "start"
  /\ LET r == ResourceLoop(tickets, 1,
                [idCounter |-> idCounter + 1, assigneeToResourceID |-> EmptyMap,
                 staffResources |-> <<>>, childResourceRefs |-> <<>>])
     IN  /\ scenarioID' = GenerateIDOf(idCounter + 1)
         /\ idCounter' = r.idCounter
         /\ assigneeToResourceID' = r.assigneeToResourceID
         /\ staffResources' = r.staffResources
         /\ childResourceRefs' = r.childResourceRefs
  /\ pc' = "leaves"
  /\ UNCHANGED <<inputs, rest, jiraKeyToTaskID, taskPtrs, epicToChildRefs, epicTasks,
                 epicMilestones, tasks, refs, stdout, scenario, run, first>>

\* buildTasksFromTickets, lines 128-184
CreateLeafTasks ==
  /\ pc = "leaves"
  /\ LET r == LeafLoop(tickets, 1, GroupByEpic, assigneeToResourceID,
                [idCounter |-> idCounter, jiraKeyToTaskID |-> EmptyMap,
                 taskPtrs |-> <<>>, epicToChildRefs |-> EmptyMap, refs |-> <<>>])
     IN  /\ idCounter' = r.idCounter
         /\ jiraKeyToTaskID' = r.jiraKeyToTaskID
         /\ taskPtrs' = r.taskPtrs
         /\ epicToChildRefs' = r.epicToChildRefs
         /\ refs' = r.refs
  /\ pc' = "epics"
  /\ UNCHANGED <<inputs, rest, scenarioID, assigneeToResourceID, staffResources,
                 childResourceRefs, epicTasks, epicMilestones, tasks, stdout,
                 scenario, run, first>>

\* buildTasksFromTickets, lines 187-236
CreateEpicGroups ==
  /\ pc = "epics"
  /\ IF GroupByEpic
     THEN \E order \in Orders(DOMAIN epicToChildRefs) :
            LET r == EpicLoop(order, 1, epicToChildRefs, epics,
                       [idCounter |-> idCounter, epicTasks |-> epicTasks,
                        epicMilestones |-> epicMilestones, tasks |-> tasks,
                        refs |-> refs])
            IN  /\ idCounter' = r.idCounter
                /\ epicTasks' = r.epicTasks
                /\ epicMilestones' = r.epicMilestones
                /\ tasks' = r.tasks
                /\ refs' = r.refs
     ELSE UNCHANGED <<idCounter, epicTasks, epicMilestones, tasks, refs>>
  /\ pc' = "final"
  /\ UNCHANGED <<inputs, rest, scenarioID, assigneeToResourceID, staffResources,
                 childResourceRefs, jiraKeyToTaskID, taskPtrs, epicToChildRefs,
                 stdout, scenario, run, first>>

\* buildTasksFromTickets, lines 239-277
CreateDoneMilestone ==
  /\ pc = "final"
  /\ IF MilestoneDone
     THEN \E order \in Orders(DOMAIN epicMilestones) :
            LET r == DoneStep([idCounter |-> idCounter, tasks |-> tasks, refs |-> refs],
                              DonePrereqs(GroupByEpic, order, epicMilestones, tasks))
            IN  /\ idCounter' = r.idCounter
                /\ tasks' = r.tasks
                /\ refs' = r.refs
     ELSE UNCHANGED <<idCounter, tasks, refs>>
  /\ pc' = "deps"
  /\ UNCHANGED <<inputs, rest, scenarioID, assigneeToResourceID, staffResources,
                 childResourceRefs, jiraKeyToTaskID, taskPtrs, epicToChildRefs,
                 epicTasks, epicMilestones, stdout, scenario, run, first>>

\* buildTasksFromTickets, lines 280-294
ResolveDependencies ==
  /\ pc = "deps"
  /\ LET r == ResolveLoop(tickets, 1, jiraKeyToTaskID,
                          [taskPtrs |-> taskPtrs, stdout |-> stdout])
     IN  /\ taskPtrs' = r.taskPtrs
         /\ stdout' = r.stdout
  /\ pc' = "compose"
  /\ UNCHANGED <<inputs, rest, idCounter, scenarioID, assigneeToResourceID, staffResources,
                 childResourceRefs, jiraKeyToTaskID, epicToChildRefs, epicTasks,
                 epicMilestones, tasks, refs, scenario, run, first>>

\* buildTasksFromTickets, lines 296-301, and buildScenario, lines 76-124
ComposeScenario ==
  /\ pc = "compose"
  /\ tasks' = ReturnedTasks(tasks, taskPtrs)
  /\ scenario' = Scenario(scenarioID, staffResources, childResourceRefs, tasks', refs)
  /\ pc' = "built"
  /\ UNCHANGED <<inputs, rest, idCounter, scenarioID, assigneeToResourceID, staffResources,
                 childResourceRefs, jiraKeyToTaskID, taskPtrs, epicToChildRefs,
                 epicTasks, epicMilestones, refs, stdout, run, first>>

\* the program is executed once more on the same input: a new process, whose
\* idCounter starts at zero again
RunAgain ==
  /\ pc = "built"
  /\ run = 1
  /\ first' = scenario
  /\ run' = 2
  /\ idCounter' = 0
  /\ pc' = "start"
  /\ scenarioID' = ""
  /\ assigneeToResourceID' = EmptyMap
  /\ staffResources' = <<>>
  /\ childResourceRefs' = <<>>
  /\ jiraKeyToTaskID' = EmptyMap
  /\ taskPtrs' = <<>>
  /\ epicToChildRefs' = EmptyMap
  /\ epicTasks' = EmptyMap
  /\ epicMilestones' = EmptyMap
  /\ tasks' = <<>>
  /\ refs' = <<>>
  /\ stdout' = <<>>
  /\ scenario' = NoScenario
  /\ UNCHANGED <<inputs, rest>>

Next ==
  \/ BuildResources
  \/ CreateLeafTasks
  \/ CreateEpicGroups
  \/ CreateDoneMilestone
  \/ ResolveDependencies
  \/ ComposeScenario

\* one execution of the build
Spec == Init /\ [][Next]_vars

NextTwice ==
  \/ BuildResources
  \/ CreateLeafTasks
  \/ CreateEpicGroups
  \/ CreateDoneMilestone
  \/ ResolveDependencies
  \/ ComposeScenario
  \/ RunAgain

\* two executions of the build on the same input
SpecTwice == Init /\ [][NextTwice]_vars

TypeOK ==
  /\ pc \in {"start", "leaves", "epics", "final", "deps", "compose", "built"}
  /\ run \in {1, 2}
  /\ idCounter \in Nat

(***************************************************************************)
(* Reading a built scenario.                                               *)
(***************************************************************************)
Built == pc = "built"

TaskIDs(sc) == {sc.Tasks[i].ID : i \in DOMAIN sc.Tasks}
ResourceIDs(sc) == {sc.Resources[i].ID : i \in DOMAIN sc.Resources}
IDRefs(rs) == [i \in DOMAIN rs |-> rs[i].IDRef]

\* the tasks of a task list with the given type, in list order
OfType(ts, type) == SelectSeq(ts, LAMBDA t : t.Type = type)
LeafTasks(sc) == OfType(sc.Tasks, "")

\* the value of a key of an annotation block ("" when absent)
UserDataValue(t, key) ==
  IF \E i \in DOMAIN t.UserData : t.UserData[i].Key = key
  THEN t.UserData[CHOOSE i \in DOMAIN t.UserData : t.UserData[i].Key = key].Value
  ELSE ""

UniqueKeys(ts) == \A i, j \in DOMAIN ts : ts[i].Key = ts[j].Key => i = j
InputKeys(ts) == {ts[i].Key : i \in DOMAIN ts}

\* the position of the first ticket carrying a key
FirstWithKey(ts, key) == CHOOSE i \in DOMAIN ts : ts[i].Key = key /\ \A j \in 1..(i - 1) : ts[j].Key # key

\* the i-th leaf task of the scenario is the task of the i-th ticket
TaskOfTicket(sc, i) == LeafTasks(sc)[i]

\* the dependency keys of a ticket that are keys of input tickets, in listed order
ResolvableDeps(ts, i) == SelectSeq(ts[i].DependencyKeys, LAMBDA k : k \in InputKeys(ts))
MissingDeps(ts, i) == SelectSeq(ts[i].DependencyKeys, LAMBDA k : k \notin InputKeys(ts))

(***************************************************************************)
(* C1: for tickets with unique keys, the prerequisites of the leaf task of *)
(* every ticket T are exactly the task ids of those dependency keys of T   *)
(* that are keys of input tickets, in listed order, whether the referenced *)
(* ticket comes before or after T in the input.                            *)
(***************************************************************************)
C1_PrerequisitesAreResolvedDeps ==
  (Built /\ UniqueKeys(tickets)) =>
    /\ Len(LeafTasks(scenario)) = Len(tickets)
    /\ \A i \in DOMAIN tickets :
         LET deps == ResolvableDeps(tickets, i)
         IN  IDRefs(TaskOfTicket(scenario, i).Prerequisites) =
               [j \in DOMAIN deps |->
                  TaskOfTicket(scenario, FirstWithKey(tickets, deps[j])).ID]

\* a ticket depends on a later ticket and on an earlier one, and both resolved
C1_Witness ==
  /\ Built /\ UniqueKeys(tickets)
  /\ \E i, j \in DOMAIN tickets :
       /\ i < j
       /\ tickets[i].DependencyKeys = <<tickets[j].Key>>
       /\ TaskOfTicket(scenario, i).Prerequisites =
            <<PrerequisiteTask(TaskOfTicket(scenario, j).ID)>>

(***************************************************************************)
(* C2: a dependency key that is not the key of any input ticket does not   *)
(* abort the build; it adds no prerequisite to the referencing task, one   *)
(* warning naming the ticket key and the missing key is printed for it,    *)
(* and the other dependency keys of the same ticket are still resolved.    *)
(***************************************************************************)
RECURSIVE ExpectedWarnings(_, _)
ExpectedWarnings(ts, i) ==
  IF i > Len(ts) THEN <<>>
  ELSE LET missing == MissingDeps(ts, i)
       IN  [j \in DOMAIN missing |->
              [format |-> "Warning: Ticket %s depends on %s, but %s was not found in the JQL result set.\n",
               args |-> <<ts[i].Key, missing[j], missing[j]>>]]
           \o ExpectedWarnings(ts, i + 1)

C2_MissingDependencyIsDropped ==
  /\ pc = "deps" => ENABLED ResolveDependencies
  /\ pc = "compose" => ENABLED ComposeScenario
  /\ Built =>
       /\ stdout = ExpectedWarnings(tickets, 1)
       /\ \A i \in DOMAIN tickets :
            LET deps == ResolvableDeps(tickets, i)
                pre == TaskOfTicket(scenario, i).Prerequisites
            IN  /\ Len(pre) = Len(tickets[i].DependencyKeys) - Len(MissingDeps(tickets, i))
                /\ Len(pre) = Len(deps)
                /\ \A j \in DOMAIN deps :
                     \E k \in DOMAIN tickets :
                       /\ tickets[k].Key = deps[j]
                       /\ pre[j].IDRef = TaskOfTicket(scenario, k).ID

\* a ticket lists a missing key and a resolvable one: one warning, one prerequisite
C2_Witness ==
  /\ Built
  /\ \E i \in DOMAIN tickets :
       /\ Len(tickets[i].DependencyKeys) = 2
       /\ Len(MissingDeps(tickets, i)) = 1
       /\ Len(TaskOfTicket(scenario, i).Prerequisites) = 1
       /\ Len(stdout) = 1
       /\ stdout[1].args = <<tickets[i].Key, MissingKey, MissingKey>>

(***************************************************************************)
(* C3: in every built scenario each child-task and prerequisite idref is   *)
(* the id of an emitted task, each assignment and child-resource idref is  *)
(* the id of an emitted resource, and top-task / top-resource name the     *)
(* emitted root group task and Project resource.                           *)
(***************************************************************************)
C3_ReferencesResolve ==
  Built =>
    /\ \A i \in DOMAIN scenario.Tasks :
         LET t == scenario.Tasks[i]
         IN  /\ \A c \in DOMAIN t.ChildTasks : t.ChildTasks[c].IDRef \in TaskIDs(scenario)
             /\ \A q \in DOMAIN t.Prerequisites : t.Prerequisites[q].IDRef \in TaskIDs(scenario)
             /\ \A a \in DOMAIN t.Assignments : t.Assignments[a].IDRef \in ResourceIDs(scenario)
    /\ \A i \in DOMAIN scenario.Resources :
         \A c \in DOMAIN scenario.Resources[i].ChildResources :
           scenario.Resources[i].ChildResources[c].IDRef \in ResourceIDs(scenario)
    /\ \E i \in DOMAIN scenario.Tasks :
         /\ scenario.Tasks[i].ID = scenario.TopTask.IDRef
         /\ scenario.Tasks[i].Type = "group"
         /\ scenario.Tasks[i].UserData = <<>>
    /\ \E i \in DOMAIN scenario.Resources :
         /\ scenario.Resources[i].ID = scenario.TopResource.IDRef
         /\ scenario.Resources[i].Type = "Project"

\* a scenario with an epic group, a resolved and a dropped dependency, an assignment
C3_Witness ==
  /\ Built /\ GroupByEpic /\ MilestoneDone
  /\ \E i \in DOMAIN scenario.Tasks :
       /\ scenario.Tasks[i].Type = ""
       /\ Len(scenario.Tasks[i].Prerequisites) = 1
       /\ Len(scenario.Tasks[i].Assignments) = 1
  /\ \E i \in DOMAIN scenario.Tasks :
       scenario.Tasks[i].Type = "group" /\ scenario.Tasks[i].UserData # <<>>
  /\ Len(stdout) = 1

(***************************************************************************)
(* C4: for non-empty tickets and every option setting there are as many    *)
(* leaf tasks (empty type) as tickets, and the i-th leaf task has the i-th *)
(* ticket's summary as title and its key as the "Jira Key" annotation.     *)
(***************************************************************************)
C4_OneLeafTaskPerTicket ==
  (Built /\ Len(tickets) > 0) =>
    /\ Len(LeafTasks(scenario)) = Len(tickets)
    /\ \A i \in DOMAIN tickets :
         /\ TaskOfTicket(scenario, i).Title = tickets[i].Summary
         /\ UserDataValue(TaskOfTicket(scenario, i), "Jira Key") = tickets[i].Key

\* as many tickets as the bound allows, next to group and milestone tasks
C4_Witness ==
  /\ Built /\ Len(tickets) = MaxTickets
  /\ Len(OfType(scenario.Tasks, "milestone")) >= 2
  /\ Len(LeafTasks(scenario)) = MaxTickets
  /\ \E i \in DOMAIN tickets : tickets[i].Summary # tickets[i].Key /\ tickets[i].EpicLink # ""

(***************************************************************************)
(* More readers of a built scenario.                                       *)
(***************************************************************************)
\* positions of the group tasks that list the task id as a child
ParentsOf(sc, id) ==
  {g \in DOMAIN sc.Tasks :
     /\ sc.Tasks[g].Type = "group"
     /\ \E c \in DOMAIN sc.Tasks[g].ChildTasks : sc.Tasks[g].ChildTasks[c].IDRef = id}

\* positions of the milestones whose only prerequisite is the task id
MilestonesAfter(sc, id) ==
  {m \in DOMAIN sc.Tasks :
     /\ sc.Tasks[m].Type = "milestone"
     /\ IDRefs(sc.Tasks[m].Prerequisites) = <<id>>}

\* positions of the final milestone, and of the other milestones
DonePositions(sc) ==
  {m \in DOMAIN sc.Tasks : sc.Tasks[m].Type = "milestone" /\ sc.Tasks[m].Title = "Done"}
EpicMilestonePositions(sc) ==
  {m \in DOMAIN sc.Tasks : sc.Tasks[m].Type = "milestone" /\ sc.Tasks[m].Title # "Done"}

RootTask(sc) == sc.Tasks[CHOOSE i \in DOMAIN sc.Tasks : sc.Tasks[i].ID = sc.TopTask.IDRef]

\* the tasks other than the root, in list order
NonRootTasks(sc) == SelectSeq(sc.Tasks, LAMBDA t : t.ID # sc.TopTask.IDRef)
EpicGroups(sc) == OfType(NonRootTasks(sc), "group")

\* the distinct non-empty epic keys of the tickets, in order of first appearance
RECURSIVE FirstSeenEpics(_, _, _)
FirstSeenEpics(ts, i, seen) ==
  IF i > Len(ts) THEN seen
  ELSE FirstSeenEpics(ts, i + 1,
         IF ts[i].EpicLink = "" \/ ts[i].EpicLink \in Range(seen)
         THEN seen ELSE Append(seen, ts[i].EpicLink))

(***************************************************************************)
(* C5: with GroupByEpic, every ticket with an epic key is a child of       *)
(* exactly one group task; that group carries the epic key as "Jira Key",  *)
(* is not the root, has at least one child, and has exactly one milestone  *)
(* titled "<epic summary> Done" whose only prerequisite is the group's id. *)
(***************************************************************************)
C5_EpicTicketsAreGrouped ==
  (Built /\ GroupByEpic) =>
    \A i \in DOMAIN tickets :
      tickets[i].EpicLink # "" =>
        LET id == TaskOfTicket(scenario, i).ID
            parents == ParentsOf(scenario, id)
        IN  /\ Cardinality(parents) = 1
            /\ \A g \in parents :
                 LET group == scenario.Tasks[g]
                     ms == MilestonesAfter(scenario, group.ID)
                 IN  /\ group.ID # scenario.TopTask.IDRef
                     /\ UserDataValue(group, "Jira Key") = tickets[i].EpicLink
                     /\ Len(group.ChildTasks) >= 1
                     /\ Cardinality({c \in DOMAIN group.ChildTasks :
                                       group.ChildTasks[c].IDRef = id}) = 1
                     /\ tickets[i].EpicLink \in DOMAIN epics =>
                          group.Title = epics[tickets[i].EpicLink].Summary
                     /\ Cardinality(ms) = 1
                     /\ \A m \in ms : scenario.Tasks[m].Title = group.Title \o " Done"

\* two tickets under two epics, one of them known to the epic map
C5_Witness ==
  /\ Built /\ GroupByEpic
  /\ \E i, j \in DOMAIN tickets :
       /\ tickets[i].EpicLink \in DOMAIN epics
       /\ tickets[j].EpicLink \notin DOMAIN epics \cup {""}
  /\ Len(EpicGroups(scenario)) = 2
  /\ \E m \in DOMAIN scenario.Tasks : scenario.Tasks[m].Title = "Platform Done"

(***************************************************************************)
(* C6: with MilestoneDone, if at least one milestone exists then exactly   *)
(* one further milestone titled "Done" is created and its prerequisites    *)
(* are exactly the other milestones (the epic milestones under             *)
(* GroupByEpic); if no milestone exists, no "Done" task is created.        *)
(***************************************************************************)
C6_DoneMilestone ==
  (Built /\ MilestoneDone) =>
    LET others == EpicMilestonePositions(scenario)
        dones == DonePositions(scenario)
    IN  IF others # {}
        THEN /\ Cardinality(dones) = 1
             /\ \A d \in dones :
                  LET pre == IDRefs(scenario.Tasks[d].Prerequisites)
                  IN  /\ Range(pre) = {scenario.Tasks[m].ID : m \in others}
                      /\ Len(pre) = Cardinality(others)
        ELSE dones = {}

\* the final milestone waits for the milestones of two epics
C6_Witness ==
  /\ Built /\ MilestoneDone /\ GroupByEpic
  /\ Cardinality(EpicMilestonePositions(scenario)) = 2
  /\ \E d \in DonePositions(scenario) : Len(scenario.Tasks[d].Prerequisites) = 2

(***************************************************************************)
(* C7 and C8 read the task list by position.                               *)
(***************************************************************************)
\* the ids of the leaf tasks of the tickets without an epic key, in input order
RECURSIVE UngroupedLeafIDs(_, _, _)
UngroupedLeafIDs(sc, ts, i) ==
  IF i > Len(ts) THEN <<>>
  ELSE (IF ts[i].EpicLink = "" THEN <<TaskOfTicket(sc, i).ID>> ELSE <<>>)
       \o UngroupedLeafIDs(sc, ts, i + 1)

AllLeafIDs(sc) == [i \in DOMAIN LeafTasks(sc) |-> LeafTasks(sc)[i].ID]

\* the ids of the epic groups, their milestones and the final milestone, in list order
SyntheticIDs(sc) ==
  LET syn == SelectSeq(NonRootTasks(sc), LAMBDA t : t.Type # "")
  IN  [i \in DOMAIN syn |-> syn[i].ID]

OneRoot(sc) ==
  /\ Cardinality({i \in DOMAIN sc.Tasks : sc.Tasks[i].ID = sc.TopTask.IDRef}) = 1
  /\ RootTask(sc).Type = "group"
  /\ RootTask(sc).UserData = <<>>

(***************************************************************************)
(* C7, as stated: the task list holds exactly one top-level group task,    *)
(* and its children are the epic groups when grouping is enabled,          *)
(* otherwise one child per ticket.                                         *)
(***************************************************************************)
C7_Original ==
  Built =>
    /\ OneRoot(scenario)
    /\ Range(IDRefs(RootTask(scenario).ChildTasks)) =
         IF GroupByEpic
         THEN {EpicGroups(scenario)[g].ID : g \in DOMAIN EpicGroups(scenario)}
         ELSE Range(AllLeafIDs(scenario))

(***************************************************************************)
(* C7, amended: the task list holds exactly one top-level group task (the  *)
(* one top-task refers to).  With grouping its children are, in order, the *)
(* leaf tasks of the tickets without an epic key, then every epic group    *)
(* followed by its milestone, then the final "Done" milestone if there is  *)
(* one; without grouping they are one child per ticket, in input order.    *)
(***************************************************************************)
C7_RootChildren ==
  Built =>
    /\ OneRoot(scenario)
    /\ IDRefs(RootTask(scenario).ChildTasks) =
         IF GroupByEpic
         THEN UngroupedLeafIDs(scenario, tickets, 1) \o SyntheticIDs(scenario)
         ELSE AllLeafIDs(scenario)
    /\ ~GroupByEpic => Len(RootTask(scenario).ChildTasks) = Len(tickets)

\* the root lists an ungrouped ticket, an epic group, its milestone and "Done"
C7_Witness ==
  /\ Built /\ GroupByEpic /\ MilestoneDone
  /\ Len(tickets) = 2
  /\ Len(UngroupedLeafIDs(scenario, tickets, 1)) = 1
  /\ Len(RootTask(scenario).ChildTasks) = 4

(***************************************************************************)
(* C8, as stated: the task list is the root group, then the leaf tasks in  *)
(* ticket order, then the epic groups with their milestones, then the      *)
(* final "Done" milestone if present.                                      *)
(***************************************************************************)
\* the task list is root, `before` leaf tasks, g (group, milestone) pairs,
\* d final milestones, and the remaining leaf tasks
Layout(sc, ts, before) ==
  LET T == sc.Tasks
      g == Len(EpicGroups(sc))
      d == Cardinality(DonePositions(sc))
      LeafAt(pos, i) == /\ T[pos].Type = ""
                        /\ T[pos].Title = ts[i].Summary
                        /\ UserDataValue(T[pos], "Jira Key") = ts[i].Key
  IN  /\ Len(T) = 1 + Len(ts) + 2 * g + d
      /\ d <= 1
      /\ T[1].ID = sc.TopTask.IDRef
      /\ \A i \in 1..before : LeafAt(1 + i, i)
      /\ \A j \in 1..g :
           /\ T[before + 2 * j].Type = "group"
           /\ T[before + 2 * j + 1].Type = "milestone"
           /\ IDRefs(T[before + 2 * j + 1].Prerequisites) = <<T[before + 2 * j].ID>>
      /\ d = 1 => (1 + before + 2 * g + 1) \in DonePositions(sc)
      /\ \A i \in (before + 1)..Len(ts) : LeafAt(1 + 2 * g + d + i, i)

C8_Original == Built => Layout(scenario, tickets, Len(tickets))

(***************************************************************************)
(* C8, amended: the task list is the root group first, then the epic       *)
(* groups, each directly followed by its milestone, then the final "Done"  *)
(* milestone if present, then the leaf tasks in ticket input order.        *)
(***************************************************************************)
C8_TaskListOrder == Built => Layout(scenario, tickets, 0)

\* a task list with two epic pairs, the final milestone and two leaf tasks
C8_Witness ==
  /\ Built /\ GroupByEpic /\ MilestoneDone
  /\ Len(tickets) = 2
  /\ Len(EpicGroups(scenario)) = 2
  /\ Len(scenario.Tasks) = 8
  /\ scenario.Tasks[8].Type = ""

(***************************************************************************)
(* C9: with GroupByEpic and two or more distinct epic keys, the epic       *)
(* groups (each directly followed by its milestone) are in the task list,  *)
(* and among the root's children, in the order in which the epic keys      *)
(* first appear in the tickets.                                            *)
(***************************************************************************)
C9_EpicsInFirstSeenOrder ==
  (Built /\ GroupByEpic /\ Len(FirstSeenEpics(tickets, 1, <<>>)) >= 2) =>
    LET groups == EpicGroups(scenario)
        groupIDs == {groups[g].ID : g \in DOMAIN groups}
        rootGroups == SelectSeq(IDRefs(RootTask(scenario).ChildTasks),
                                LAMBDA id : id \in groupIDs)
    IN  /\ [g \in DOMAIN groups |-> UserDataValue(groups[g], "Jira Key")] =
             FirstSeenEpics(tickets, 1, <<>>)
        /\ rootGroups = [g \in DOMAIN groups |-> groups[g].ID]

(***************************************************************************)
(* C10: two builds of the same tickets, epic map and options that start    *)
(* from the same counter value return the same resource list and the same  *)
(* task list (ids, order, prerequisite order, root children).              *)
(***************************************************************************)
C10_Deterministic ==
  (Built /\ run = 2) =>
    /\ scenario.Resources = first.Resources
    /\ scenario.Tasks = first.Tasks
    /\ scenario.ID = first.ID

(***************************************************************************)
(* C11: the effort of every ticket's leaf task, in seconds, is the         *)
(* ticket's EffortDays times 28800 when EffortDays is positive, and 28800  *)
(* when it is zero.                                                        *)
(***************************************************************************)
C11_EffortIsDaysTimes28800 ==
  Built =>
    \A i \in DOMAIN tickets :
      LET effort == TaskOfTicket(scenario, i).Effort
          days == tickets[i].EffortDays
      IN  IF days[1] > 0
          THEN effort * days[2] = days[1] * SecondsPerDay
          ELSE effort = SecondsPerDay

(***************************************************************************)
(* C12: every leaf task has an effort that is present in the document      *)
(* (non-zero, so that omitempty keeps the element) and strictly positive,  *)
(* whatever non-negative EffortDays the ticket carries.                    *)
(***************************************************************************)
C12_EffortPresentAndPositive ==
  Built =>
    \A i \in DOMAIN LeafTasks(scenario) :
      /\ LeafTasks(scenario)[i].Effort # 0
      /\ LeafTasks(scenario)[i].Effort > 0

\* the distinct non-empty assignees of the tickets, in order of first appearance
RECURSIVE FirstSeenAssignees(_, _, _)
FirstSeenAssignees(ts, i, seen) ==
  IF i > Len(ts) THEN seen
  ELSE FirstSeenAssignees(ts, i + 1,
         IF ts[i].Assignee = "" \/ ts[i].Assignee \in Range(seen)
         THEN seen ELSE Append(seen, ts[i].Assignee))

(***************************************************************************)
(* C13: the resource list has 1 + (number of distinct non-empty assignees) *)
(* entries: the Project resource first, then one childless Staff resource  *)
(* per distinct assignee in order of first appearance; the Project's       *)
(* children are those Staff ids in that order; a ticket with an assignee   *)
(* has exactly one assignment, the id of its assignee's Staff resource,    *)
(* and a ticket without assignee has none.                                 *)
(***************************************************************************)
C13_ResourcesPerAssignee ==
  Built =>
    LET rs == scenario.Resources
        assignees == FirstSeenAssignees(tickets, 1, <<>>)
    IN  /\ Len(rs) = 1 + Len(assignees)
        /\ rs[1].ID = scenario.TopResource.IDRef
        /\ rs[1].Type = "Project"
        /\ \A j, k \in DOMAIN rs : rs[j].ID = rs[k].ID => j = k
        /\ \A k \in DOMAIN assignees :
             /\ rs[k + 1].Type = "Staff"
             /\ rs[k + 1].Name = assignees[k]
             /\ rs[k + 1].ChildResources = <<>>
        /\ IDRefs(rs[1].ChildResources) = [k \in DOMAIN assignees |-> rs[k + 1].ID]
        /\ \A i \in DOMAIN tickets :
             LET assigned == TaskOfTicket(scenario, i).Assignments
             IN  IF tickets[i].Assignee = ""
                 THEN assigned = <<>>
                 ELSE \E k \in DOMAIN assignees :
                        /\ assignees[k] = tickets[i].Assignee
                        /\ assigned = <<Reference(rs[k + 1].ID)>>

\* two tickets of the same assignee share one Staff resource
C13_Witness ==
  /\ Built
  /\ Len(tickets) = 2
  /\ tickets[1].Assignee = "alice"
  /\ tickets[2].Assignee = "alice"
  /\ Len(scenario.Resources) = 2
  /\ TaskOfTicket(scenario, 1).Assignments = TaskOfTicket(scenario, 2).Assignments
  /\ Len(TaskOfTicket(scenario, 2).Assignments) = 1

(***************************************************************************)
(* C16: a build from zero tickets succeeds under every combination of      *)
(* GroupByEpic and MilestoneDone; its task list holds only the root group, *)
(* which has no children, and its resource list holds only the Project     *)
(* resource, which has no child resources.                                 *)
(***************************************************************************)
C16_EmptyInput ==
  (tickets = <<>>) =>
    /\ ~Built => ENABLED Next
    /\ Built =>
         /\ Len(scenario.Tasks) = 1
         /\ scenario.Tasks[1].ID = scenario.TopTask.IDRef
         /\ scenario.Tasks[1].Type = "group"
         /\ scenario.Tasks[1].ChildTasks = <<>>
         /\ Len(scenario.Resources) = 1
         /\ scenario.Resources[1].ID = scenario.TopResource.IDRef
         /\ scenario.Resources[1].Type = "Project"
         /\ scenario.Resources[1].ChildResources = <<>>

\* the build from no tickets has finished with both options set
C16_Witness ==
  /\ Built
  /\ tickets = <<>>
  /\ GroupByEpic
  /\ MilestoneDone
  /\ Len(scenario.Tasks) = 1

\* the groups of a built scenario that carry the epic key
GroupsOfEpic(sc, epicKey) ==
  SelectSeq(EpicGroups(sc), LAMBDA g : UserDataValue(g, "Jira Key") = epicKey)

(***************************************************************************)
(* C19: with GroupByEpic, an epic key of a ticket that has no entry in the *)
(* epic map (also when the map is empty or nil) still gets its group: the  *)
(* group's title is the epic key, its milestone is titled "<epic key>      *)
(* Done", and its annotations carry the epic key with an empty link and an *)
(* empty status. When the map has the entry, title, link and status are    *)
(* those of the epic record.                                               *)
(***************************************************************************)
C19_UnknownEpicFallsBackToKey ==
  (Built /\ GroupByEpic) =>
    \A epicKey \in Range(FirstSeenEpics(tickets, 1, <<>>)) :
      LET groups == GroupsOfEpic(scenario, epicKey)
          known == epicKey \in DOMAIN epics
          title == IF known THEN epics[epicKey].Summary ELSE epicKey
      IN  /\ Len(groups) = 1
          /\ groups[1].Title = title
          /\ UserDataValue(groups[1], "Jira Link") = IF known THEN epics[epicKey].Link ELSE ""
          /\ UserDataValue(groups[1], "Jira Status") = IF known THEN epics[epicKey].Status ELSE ""
          /\ \E m \in DOMAIN scenario.Tasks :
               /\ scenario.Tasks[m].Type = "milestone"
               /\ scenario.Tasks[m].Title = title \o " Done"
               /\ scenario.Tasks[m].Prerequisites = <<PrerequisiteTask(groups[1].ID)>>

\* one epic of the tickets is in the map and the other is not
C19_Witness ==
  /\ Built
  /\ GroupByEpic
  /\ "E1" \in DOMAIN epics
  /\ Range(FirstSeenEpics(tickets, 1, <<>>)) = {"E1", "E2"}
  /\ Len(GroupsOfEpic(scenario, "E2")) = 1
  /\ GroupsOfEpic(scenario, "E2")[1].Title = "E2"
  /\ GroupsOfEpic(scenario, "E1")[1].Title = "Platform"

(***************************************************************************)
(* types.go, lines 143-151, and serializer.go, lines 51-64 and 156-268:    *)
(* goroutines that draw identifiers from the one counter concurrently.     *)
(***************************************************************************)
MaxCalls == 3

\* two builds and one direct caller of GenerateID
Callers == {"build 1", "build 2", "GenerateID"}

\* what the k-th call of a caller formats: a build asks for its scenario id,
\* then for a resource id, then for task ids
IdentifierOf(caller, k, n) ==
  IF caller = "GenerateID" \/ k = 1 THEN GenerateIDOf(n)
  ELSE IF k = 2 THEN ResourceIDOf(n)
  ELSE TaskIDOf(n)

\* no build is running step by step
NoBuild ==
  /\ tickets = <<>>
  /\ epics = EmptyMap
  /\ GroupByEpic = FALSE
  /\ MilestoneDone = FALSE
  /\ pc = "start"
  /\ scenarioID = ""
  /\ assigneeToResourceID = EmptyMap
  /\ staffResources = <<>>
  /\ childResourceRefs = <<>>
  /\ jiraKeyToTaskID = EmptyMap
  /\ taskPtrs = <<>>
  /\ epicToChildRefs = EmptyMap
  /\ epicTasks = EmptyMap
  /\ epicMilestones = EmptyMap
  /\ tasks = <<>>
  /\ refs = <<>>
  /\ stdout = <<>>
  /\ scenario = NoScenario
  /\ run = 1
  /\ first = NoScenario

InitCallers ==
  /\ NoBuild
  /\ idCounter = 0
  /\ issued = [c \in Callers |-> <<>>]
  /\ SerializeStart
  /\ NoCommand
  /\ NoClient

\* faulty variant of Add: every caller counts for itself
AddOwnCounter(caller) ==
  /\ Len(issued[caller]) < MaxCalls
  /\ idCounter' = idCounter + 1
  /\ LET n == Len(issued[caller]) + 1
     IN  issued' = [issued EXCEPT ![caller] =
                      Append(@, [Value |-> n, ID |-> IdentifierOf(caller, n, n)])]
  /\ UNCHANGED <<inputs, pc, scenarioID, assigneeToResourceID, staffResources,
                 childResourceRefs, jiraKeyToTaskID, taskPtrs, epicToChildRefs,
                 epicTasks, epicMilestones, tasks, refs, stdout, scenario, run, first,
                 serializeVars, commandVars, clientVars>>

\* idCounter.Add(1), one atomic read-modify-write that returns the new value,
\* and the fmt.Sprintf of the identifier
Add(caller) ==
  /\ Len(issued[caller]) < MaxCalls
  /\ idCounter' = idCounter + 1
  /\ LET n == idCounter + 1
     IN  issued' = [issued EXCEPT ![caller] =
                      Append(@, [Value |-> n,
                                 ID |-> IdentifierOf(caller, Len(issued[caller]) + 1, n)])]
  /\ UNCHANGED <<inputs, pc, scenarioID, assigneeToResourceID, staffResources,
                 childResourceRefs, jiraKeyToTaskID, taskPtrs, epicToChildRefs,
                 epicTasks, epicMilestones, tasks, refs, stdout, scenario, run, first,
                 serializeVars, commandVars, clientVars>>

NextCallers == \E caller \in Callers : Add(caller)

\* any interleaving of the callers' requests
SpecCallers == InitCallers /\ [][NextCallers]_vars

(***************************************************************************)
(* C14: under any interleaving of concurrent callers of the counter        *)
(* (GenerateID and the r%d / t%d allocations of two concurrent builds), no *)
(* counter value is handed out twice, so no two generated identifiers are  *)
(* equal, and the values returned to one caller are strictly increasing.   *)
(***************************************************************************)
C14_IdentifiersNeverRepeat ==
  /\ \A c1, c2 \in DOMAIN issued :
       \A i \in DOMAIN issued[c1], j \in DOMAIN issued[c2] :
         (issued[c1][i].Value = issued[c2][j].Value \/ issued[c1][i].ID = issued[c2][j].ID)
           => (c1 = c2 /\ i = j)
  /\ \A c \in DOMAIN issued :
       \A i, j \in DOMAIN issued[c] : i < j => issued[c][i].Value < issued[c][j].Value

\* the calls of the two builds and of GenerateID were interleaved
C14_Witness ==
  /\ DOMAIN issued = Callers
  /\ \A c \in Callers : Len(issued[c]) = MaxCalls
  /\ issued["build 1"][1].Value < issued["build 2"][1].Value
  /\ issued["build 2"][1].Value < issued["GenerateID"][1].Value
  /\ issued["GenerateID"][1].Value < issued["build 1"][2].Value
  /\ issued["build 1"][3].Value < issued["build 2"][3].Value

(***************************************************************************)
(* Serialize, lines 29-46: the three writes to the io.Writer that follow   *)
(* buildScenario. A write that fails may have passed a part of its bytes.  *)
(***************************************************************************)
Written(what, ok) == [What |-> what, OK |-> ok]

\* faulty variant of WriteHeader: the error of the header write is dropped
WriteHeaderUnchecked ==
  /\ pc = "built"
  /\ serializePC = "build"
  /\ \E ok \in BOOLEAN : sink' = Append(sink, Written("header", ok))
  /\ serializePC' = "encode"
  /\ UNCHANGED <<buildVars, issued, serializeErr, commandVars, clientVars>>

\* lines 30-32: w.Write([]byte(xml.Header))
WriteHeader ==
  /\ pc = "built"
  /\ serializePC = "build"
  /\ \E ok \in BOOLEAN :
       /\ sink' = Append(sink, Written("header", ok))
       /\ IF ok
          THEN serializePC' = "encode" /\ UNCHANGED serializeErr
          ELSE serializePC' = "returned" /\ serializeErr' = "writing XML header"
  /\ UNCHANGED <<buildVars, issued, commandVars, clientVars>>

\* lines 35-39: the encoder marshals the scenario into a buffer it flushes to
\* w; when it fails, w has received a part of the document or nothing
EncodeScenario ==
  /\ serializePC = "encode"
  /\ \E outcome \in {"ok", "partial", "nothing"} :
       /\ sink' = IF outcome = "nothing" THEN sink
                  ELSE Append(sink, Written("body", outcome = "ok"))
       /\ IF outcome = "ok"
          THEN serializePC' = "newline" /\ UNCHANGED serializeErr
          ELSE serializePC' = "returned" /\ serializeErr' = "encoding scenario"
  /\ UNCHANGED <<buildVars, issued, commandVars, clientVars>>

\* lines 42-46: w.Write([]byte("\n")) and the return
WriteNewline ==
  /\ serializePC = "newline"
  /\ \E ok \in BOOLEAN :
       /\ sink' = Append(sink, Written("newline", ok))
       /\ serializeErr' = IF ok THEN "nil" ELSE "writing final newline"
  /\ serializePC' = "returned"
  /\ UNCHANGED <<buildVars, issued, commandVars, clientVars>>

NextSerialize ==
  \/ Next
  \/ WriteHeader
  \/ EncodeScenario
  \/ WriteNewline

\* one call of Serialize: the build, then the writes
SpecSerialize == Init /\ [][NextSerialize]_vars

\* the writes that did not fail
Whole(writes) == SelectSeq(writes, LAMBDA x : x.OK)

(***************************************************************************)
(* C15: when a write to the sink fails, Serialize returns a non-nil error  *)
(* and writes nothing afterwards: after a failed header write neither body *)
(* nor newline is written, after a failed encode the newline is not        *)
(* written; Serialize returns nil only when header, body and final newline *)
(* were all written, in that order.                                        *)
(***************************************************************************)
C15_NoWriteAfterFailure ==
  /\ \A i \in DOMAIN sink :
       ~sink[i].OK =>
         /\ i = Len(sink)
         /\ serializePC = "returned"
         /\ serializeErr \notin {"nil", "pending"}
  /\ serializePC = "returned" => serializeErr # "pending"
  /\ (serializePC = "returned" /\ serializeErr = "encoding scenario") =>
       \A i \in DOMAIN sink : sink[i].What # "newline"
  /\ (serializePC = "returned" /\ serializeErr = "writing XML header") =>
       sink = <<Written("header", FALSE)>>
  /\ serializeErr = "nil" =>
       sink = <<Written("header", TRUE), Written("body", TRUE), Written("newline", TRUE)>>
  /\ [i \in DOMAIN sink |-> sink[i].What] \in
       {<<>>, <<"header">>, <<"header", "body">>, <<"header", "body", "newline">>}

\* Serialize returned an error after a write of the body had failed
C15_Witness ==
  /\ serializePC = "returned"
  /\ serializeErr = "encoding scenario"
  /\ sink = <<Written("header", TRUE), Written("body", FALSE)>>
  /\ Len(tickets) > 0

(***************************************************************************)
(* cmd/root.go, lines 27-93: the root command. What config.Load returns    *)
(* and the two flags are its inputs; every operation outside the process   *)
(* may fail.                                                               *)
(***************************************************************************)
\* config.Config, each field empty or set
Configs ==
  [JiraURL : {"", "https://jira.example.com"}, JiraPAT : {"", "token"},
   EffortCustomFieldID : {"", "10105"}, EpicLinkCustomFieldID : {"", "11000"}]

\* config.Load: ErrConfigNotFound, another error, or a configuration
LoadResults ==
  {[err |-> e, cfg |-> "nil"] : e \in {"ErrConfigNotFound", "read error"}}
    \cup {[err |-> "", cfg |-> c] : c \in Configs}

InitRoot ==
  /\ NoBuild
  /\ idCounter = 0
  /\ NoCallers
  /\ SerializeStart
  /\ NoClient
  /\ cmdPC = "load"
  /\ exitStatus = "running"
  /\ loaded \in LoadResults
  /\ epicGroup \in BOOLEAN
  /\ milestoneDone \in BOOLEAN
  /\ effects = <<>>
  /\ machine = [HomeDir |-> "", EDITOR |-> "", GOOS |-> ""]
  /\ configFile = "absent"

\* what a step of the root command leaves alone
rootFrame == <<buildVars, issued, serializeVars, clientVars, loaded, epicGroup,
               milestoneDone, machine, configFile>>

\* log.Fatal and os.Exit(1)
Fatal ==
  /\ cmdPC' = "exited"
  /\ exitStatus' = "1"

\* an operation outside the process: on failure the command ends with log.Fatalf
Attempt(op, next) ==
  \E ok \in BOOLEAN :
    /\ effects' = Append(effects, [Op |-> op, OK |-> ok])
    /\ IF ok THEN cmdPC' = next /\ UNCHANGED exitStatus ELSE Fatal

\* lines 31-38
LoadConfig ==
  /\ cmdPC = "load"
  /\ IF loaded.err # "" THEN Fatal ELSE cmdPC' = "validate" /\ UNCHANGED exitStatus
  /\ UNCHANGED <<effects, rootFrame>>

\* lines 40-47
ValidateConfig ==
  /\ cmdPC = "validate"
  /\ IF loaded.cfg.JiraURL = "" \/ loaded.cfg.JiraPAT = "" THEN Fatal
     ELSE IF loaded.cfg.EffortCustomFieldID = "" THEN Fatal
     ELSE cmdPC' = "epic" /\ UNCHANGED exitStatus
  /\ UNCHANGED <<effects, rootFrame>>

\* faulty variant of RequireEpicLink: the flag is not checked against the configuration
RequireEpicLinkSkipped ==
  /\ cmdPC = "epic"
  /\ cmdPC' = "client"
  /\ UNCHANGED <<exitStatus, effects, rootFrame>>

\* lines 49-51
RequireEpicLink ==
  /\ cmdPC = "epic"
  /\ IF epicGroup /\ loaded.cfg.EpicLinkCustomFieldID = "" THEN Fatal
     ELSE cmdPC' = "client" /\ UNCHANGED exitStatus
  /\ UNCHANGED <<effects, rootFrame>>

\* lines 53-56
CreateClient ==
  /\ cmdPC = "client"
  /\ Attempt("jira.NewClient", "fetch")
  /\ UNCHANGED rootFrame

\* lines 58-61
FetchTickets ==
  /\ cmdPC = "fetch"
  /\ Attempt("client.GetTickets", "mkdir")
  /\ UNCHANGED rootFrame

\* lines 64-67
MakeDirectory ==
  /\ cmdPC = "mkdir"
  /\ Attempt("os.MkdirAll", "create")
  /\ UNCHANGED rootFrame

\* lines 70-75
CreateActual ==
  /\ cmdPC = "create"
  /\ Attempt("os.Create Actual.xml", "serialize")
  /\ UNCHANGED rootFrame

\* lines 77-82
SerializeActual ==
  /\ cmdPC = "serialize"
  /\ Attempt("serializer.Serialize", "toc")
  /\ UNCHANGED rootFrame

\* lines 85-87
CopyTOC ==
  /\ cmdPC = "toc"
  /\ Attempt("copy __TOC.xml", "changelog")
  /\ UNCHANGED rootFrame

\* lines 90-94
CopyChangelog ==
  /\ cmdPC = "changelog"
  /\ \E ok \in BOOLEAN :
       /\ effects' = Append(effects, [Op |-> "copy __changelog.xml", OK |-> ok])
       /\ IF ok THEN cmdPC' = "exited" /\ exitStatus' = "0" ELSE Fatal
  /\ UNCHANGED rootFrame

NextRoot ==
  \/ LoadConfig
  \/ ValidateConfig
  \/ RequireEpicLink
  \/ CreateClient
  \/ FetchTickets
  \/ MakeDirectory
  \/ CreateActual
  \/ SerializeActual
  \/ CopyTOC
  \/ CopyChangelog

\* one run of the root command
SpecRoot == InitRoot /\ [][NextRoot]_vars

(***************************************************************************)
(* C17: when --epic-group is set and epic_link_custom_field_id is empty in *)
(* the configuration, the root command ends with an error before the Jira  *)
(* client is created, before any query and before the output directory or  *)
(* any file is created.                                                    *)
(***************************************************************************)
C17_EpicGroupNeedsEpicLink ==
  (epicGroup /\ loaded.err = "" /\ loaded.cfg.EpicLinkCustomFieldID = "") =>
    /\ effects = <<>>
    /\ cmdPC \in {"load", "validate", "epic", "exited"}
    /\ cmdPC = "exited" => exitStatus = "1"
    /\ cmdPC # "exited" => (exitStatus = "running" /\ ENABLED NextRoot)

\* the command was stopped by the check of the epic link field itself
C17_Witness ==
  /\ cmdPC = "exited"
  /\ exitStatus = "1"
  /\ epicGroup
  /\ loaded.err = ""
  /\ loaded.cfg = [JiraURL |-> "https://jira.example.com", JiraPAT |-> "token",
                   EffortCustomFieldID |-> "10105", EpicLinkCustomFieldID |-> ""]
  /\ effects = <<>>

(***************************************************************************)
(* cmd/config.go, lines 27-84: the config command. The machine it starts   *)
(* on (home directory, $EDITOR, runtime.GOOS, the file at the config path) *)
(* is its input; os.Stat, os.WriteFile and the editor may fail.            *)
(***************************************************************************)
\* lines 14-25, by its first line
configTemplate == "# Jira Configuration"

\* the file at the config path: none, the template, or the user's own settings
ConfigFiles == {"absent", configTemplate, "jira_url: \"https://jira.example.com\""}

Machines ==
  [HomeDir : {"", "/home/user"}, EDITOR : {"", "nano"},
   GOOS : {"windows", "darwin", "linux", "plan9"}, ConfigFile : ConfigFiles]

InitConfig ==
  /\ NoBuild
  /\ idCounter = 0
  /\ NoCallers
  /\ SerializeStart
  /\ NoClient
  /\ cmdPC = "path"
  /\ exitStatus = "running"
  /\ loaded = [err |-> "", cfg |-> "nil"]
  /\ epicGroup = FALSE
  /\ milestoneDone = FALSE
  /\ effects = <<>>
  /\ machine \in Machines
  /\ configFile = machine.ConfigFile

\* what a step of the config command leaves alone
configFrame == <<buildVars, issued, serializeVars, clientVars, loaded, epicGroup,
                 milestoneDone, machine>>

\* lines 32-36: config.GetConfigPath fails when there is no home directory
ResolveConfigPath ==
  /\ cmdPC = "path"
  /\ IF machine.HomeDir = "" THEN Fatal ELSE cmdPC' = "stat" /\ UNCHANGED exitStatus
  /\ UNCHANGED <<effects, configFile, configFrame>>

\* what os.Stat can answer for the file
StatResults(file) == IF file = "absent" THEN {"not exist", "error"} ELSE {"ok", "error"}

\* faulty variant of EnsureConfigFile: the template is written whatever os.Stat says
EnsureConfigFileAlways ==
  /\ cmdPC = "stat"
  /\ \E stat \in StatResults(configFile) :
       /\ effects' = effects \o <<[Op |-> "os.Stat", OK |-> stat = "ok"],
                                  [Op |-> "os.WriteFile", OK |-> TRUE]>>
       /\ configFile' = configTemplate
       /\ cmdPC' = "editor"
       /\ UNCHANGED exitStatus
  /\ UNCHANGED configFrame

\* lines 39-48: the template is written when os.Stat reports that the file
\* does not exist; a failed os.WriteFile leaves no file or an incomplete one
EnsureConfigFile ==
  /\ cmdPC = "stat"
  /\ \E stat \in StatResults(configFile) :
       IF stat = "not exist"
       THEN \E ok \in BOOLEAN :
              /\ effects' = effects \o <<[Op |-> "os.Stat", OK |-> FALSE],
                                         [Op |-> "os.WriteFile", OK |-> ok]>>
              /\ IF ok
                 THEN /\ configFile' = configTemplate
                      /\ cmdPC' = "editor"
                      /\ UNCHANGED exitStatus
                 ELSE /\ configFile' \in {"absent", ""}
                      /\ Fatal
       ELSE /\ effects' = Append(effects, [Op |-> "os.Stat", OK |-> stat = "ok"])
            /\ cmdPC' = "editor"
            /\ UNCHANGED <<configFile, exitStatus>>
  /\ UNCHANGED configFrame

\* lines 60-72: $EDITOR, or the default of the operating system, or none
EditorOf(m) ==
  IF m.EDITOR # "" THEN m.EDITOR
  ELSE IF m.GOOS = "windows" THEN "notepad"
  ELSE IF m.GOOS \in {"darwin", "linux"} THEN "vi"
  ELSE ""

\* lines 51 and 59-84: openInEditor, after which the command ends
OpenInEditor ==
  /\ cmdPC = "editor"
  /\ IF EditorOf(machine) = ""
     THEN effects' = Append(effects, [Op |-> "openInEditor", OK |-> TRUE])
     ELSE \E ok \in BOOLEAN :
            effects' = effects \o <<[Op |-> "openInEditor", OK |-> TRUE],
                                    [Op |-> "exec " \o EditorOf(machine), OK |-> ok]>>
  /\ cmdPC' = "exited"
  /\ exitStatus' = "0"
  /\ UNCHANGED <<configFile, configFrame>>

NextConfig ==
  \/ ResolveConfigPath
  \/ EnsureConfigFile
  \/ OpenInEditor

\* one run of the config command
SpecConfig == InitConfig /\ [][NextConfig]_vars

\* the operations of the given name the command has performed
Performed(op) == {i \in DOMAIN effects : effects[i].Op = op}

\* the template is written only when there was no file; a file that was there
\* keeps its content
ConfigFileFrame ==
  /\ Performed("os.WriteFile") # {} => machine.ConfigFile = "absent"
  /\ machine.ConfigFile # "absent" => configFile = machine.ConfigFile
  /\ configFile # machine.ConfigFile =>
       (Performed("os.WriteFile") # {} /\ configFile \in {configTemplate, ""})

(***************************************************************************)
(* C18 as stated: the config command writes the template only when no file *)
(* exists at the config path, leaves an existing file's content unchanged, *)
(* and in both cases has opened the editor when it ends.                   *)
(***************************************************************************)
C18_Original ==
  /\ ConfigFileFrame
  /\ (cmdPC = "exited" /\ Performed("os.Stat") # {}) => Performed("openInEditor") # {}

(***************************************************************************)
(* C18: the config command writes the template only when no file exists at *)
(* the config path and leaves an existing file's content unchanged. When   *)
(* the file is there or has just been written, openInEditor is called      *)
(* afterwards and the command ends with status 0; when writing the         *)
(* template fails, the command ends with status 1 and no editor is opened. *)
(***************************************************************************)
C18_ConfigFileKeptAndEdited ==
  /\ ConfigFileFrame
  /\ (cmdPC = "exited" /\ Performed("os.Stat") # {}) =>
       IF \E i \in Performed("os.WriteFile") : ~effects[i].OK
       THEN exitStatus = "1" /\ Performed("openInEditor") = {}
       ELSE /\ exitStatus = "0"
            /\ Cardinality(Performed("openInEditor")) = 1
            /\ \A i \in Performed("openInEditor"), j \in Performed("os.WriteFile") : j < i
            /\ \A i \in Performed("openInEditor"), j \in Performed("os.Stat") : j < i

\* a file with the user's settings was there: nothing was written and the
\* editor was started on it
C18_Witness ==
  /\ cmdPC = "exited"
  /\ exitStatus = "0"
  /\ machine.ConfigFile \notin {"absent", configTemplate}
  /\ configFile = machine.ConfigFile
  /\ Performed("os.WriteFile") = {}
  /\ Performed("exec nano") # {}

(***************************************************************************)
(* internal/jira/client.go, lines 36-230: NewClient and GetTickets. What   *)
(* the Jira server answers to the searches is the input.                   *)
(***************************************************************************)
MaxLinks == 2

\* NewClient, lines 61-66: the custom field ids get their prefix
HasPrefix(s, prefix) == Len(s) >= Len(prefix) /\ SubSeq(s, 1, Len(prefix)) = prefix

CustomField(id) ==
  IF id # "" /\ ~HasPrefix(id, "customfield_") THEN "customfield_" \o id ELSE id

\* the configurations the root command builds a client from
ClientConfigs ==
  {c \in Configs : c.JiraURL # "" /\ c.JiraPAT # "" /\ c.EffortCustomFieldID # ""}
    \cup {[JiraURL |-> "https://jira.example.com", JiraPAT |-> "token",
           EffortCustomFieldID |-> "customfield_10105",
           EpicLinkCustomFieldID |-> "customfield_11000"]}

\* an issue link: its type name and the key of its outward and inward issue,
\* "nil" for an issue pointer that is nil
IssueLink(name, outward, inward) ==
  [Type |-> [Name |-> name], OutwardIssue |-> outward, InwardIssue |-> inward]

LinkChoices ==
  { IssueLink("Dependent", "B", "nil"),
    IssueLink("Dependent", "C", "nil"),
    IssueLink("Dependent", "nil", "D"),
    IssueLink("Blocks", "B", "nil"),
    IssueLink("Relates", "nil", "D") }

\* a value of Fields.Unknowns as the JSON decoder leaves it
Float(num, den) == [Type |-> "float64", Value |-> <<num, den>>, Text |-> ""]
String(text) == [Type |-> "string", Value |-> <<0, 1>>, Text |-> text]
Null == [Type |-> "nil", Value |-> <<0, 1>>, Text |-> ""]
Object == [Type |-> "map", Value |-> <<0, 1>>, Text |-> ""]

User(present, displayName, name) ==
  [Present |-> present, DisplayName |-> displayName, Name |-> name]

\* assignee and custom fields of the issues the searches return
IssueProfiles ==
  { [Assignee |-> User(TRUE, "Alice", "alice"),
     Unknowns |-> ("customfield_10105" :> Float(2, 1)) @@ ("customfield_11000" :> String("E1"))],
    [Assignee |-> User(FALSE, "", ""),
     Unknowns |-> ("customfield_11000" :> Null)],
    [Assignee |-> User(TRUE, "", "bob"),
     Unknowns |-> ("customfield_10105" :> String("1.5")) @@ ("customfield_11000" :> Object)],
    [Assignee |-> User(TRUE, "Carol", "carol"),
     Unknowns |-> ("customfield_10105" :> String("soon")) @@ ("customfield_11000" :> String("E2"))] }

Issue(key, profile, links) ==
  [Key |-> key, Self |-> "https://jira.example.com/rest/api/2/issue/" \o key,
   Summary |-> "Issue " \o key, Status |-> [Name |-> "Open"],
   Assignee |-> profile.Assignee, Unknowns |-> profile.Unknowns, IssueLinks |-> links]

\* the matches of the JQL: no issue, one issue, or two
SearchResults ==
  {<<>>}
    \cup {<<Issue("A", p, links)>> :
            p \in IssueProfiles, links \in SeqsUpTo(LinkChoices, MaxLinks)}
    \cup {<<Issue("A", p, links),
            Issue("B", CHOOSE q \in IssueProfiles : q.Assignee.DisplayName = "Alice",
                  <<IssueLink("Dependent", "A", "nil")>>)>> :
            p \in IssueProfiles, links \in SeqsUpTo(LinkChoices, MaxLinks)}

\* line 98
MaxResults == 1000

\* a query that matches one page of issues exactly, or one issue more
LargeResults ==
  {[k \in 1..n |-> Issue("T" \o ToString(k),
                         CHOOSE q \in IssueProfiles : q.Assignee.DisplayName = "Alice",
                         <<>>)] : n \in {MaxResults, MaxResults + 1}}

\* Issue.Search with SearchOptions{StartAt, MaxResults}: one request, answered
\* with the page of at most maxResults matches that follow the first startAt
Search(all, startAt, maxResults) ==
  SubSeq(all, startAt + 1, IF Len(all) < startAt + maxResults THEN Len(all)
                            ELSE startAt + maxResults)

InitClient ==
  /\ NoBuild
  /\ idCounter = 0
  /\ NoCallers
  /\ SerializeStart
  /\ cmdPC = "none"
  /\ exitStatus = "running"
  /\ loaded \in {[err |-> "", cfg |-> c] : c \in ClientConfigs}
  /\ epicGroup = FALSE
  /\ milestoneDone = FALSE
  /\ effects = <<>>
  /\ machine = [HomeDir |-> "", EDITOR |-> "", GOOS |-> ""]
  /\ configFile = "absent"
  /\ matching \in SearchResults \cup LargeResults
  /\ issues = <<>>
  /\ clientPC = "search"
  /\ clientErr = "pending"

\* lines 106-112
AssigneeOf(issue) ==
  IF ~issue.Assignee.Present THEN ""
  ELSE IF issue.Assignee.DisplayName # "" THEN issue.Assignee.DisplayName
  ELSE issue.Assignee.Name

\* fmt.Sscanf(v, "%f", &f) on the texts of the inputs: <<value, parsed>>
Sscanf(text) ==
  IF text = "1.5" THEN <<<<3, 2>>, TRUE>>
  ELSE IF text = "2" THEN <<<<2, 1>>, TRUE>>
  ELSE <<<<0, 1>>, FALSE>>

\* lines 204-230: <<effort in days, found>>
extractEffortDays(unknowns, effortFieldID) ==
  IF effortFieldID \notin DOMAIN unknowns \/ unknowns[effortFieldID].Type = "nil"
  THEN <<<<0, 1>>, FALSE>>
  ELSE LET v == unknowns[effortFieldID]
       IN  IF v.Type = "float64" THEN <<v.Value, TRUE>>
           ELSE IF v.Type = "string" THEN Sscanf(v.Text)
           ELSE <<<<0, 1>>, FALSE>>

\* lines 121-128
EpicLinkOf(issue, epicLinkFieldID) ==
  IF epicLinkFieldID # "" /\ epicLinkFieldID \in DOMAIN issue.Unknowns
     /\ issue.Unknowns[epicLinkFieldID].Type = "string"
  THEN issue.Unknowns[epicLinkFieldID].Text
  ELSE ""

\* faulty variant of DependencyKeysStep: the type name of the link is not looked at
DependencyKeysStepAnyType(dependencyKeys, link) ==
  IF link.OutwardIssue # "nil"
  THEN Append(dependencyKeys, link.OutwardIssue)
  ELSE dependencyKeys

\* lines 131-135: one iteration of the loop over the issue links
DependencyKeysStep(dependencyKeys, link) ==
  IF link.Type.Name = "Dependent" /\ link.OutwardIssue # "nil"
  THEN Append(dependencyKeys, link.OutwardIssue)
  ELSE dependencyKeys

RECURSIVE DependencyKeysLoop(_, _, _)
DependencyKeysLoop(links, j, dependencyKeys) ==
  IF j > Len(links) THEN dependencyKeys
  ELSE DependencyKeysLoop(links, j + 1, DependencyKeysStep(dependencyKeys, links[j]))

\* lines 137-146
TicketOf(issue, cfg) ==
  [Key |-> issue.Key, Summary |-> issue.Summary, Link |-> issue.Self,
   Assignee |-> AssigneeOf(issue), Status |-> issue.Status.Name,
   EffortDays |-> extractEffortDays(issue.Unknowns, CustomField(cfg.EffortCustomFieldID))[1],
   EpicLink |-> EpicLinkOf(issue, CustomField(cfg.EpicLinkCustomFieldID)),
   DependencyKeys |-> DependencyKeysLoop(issue.IssueLinks, 1, <<>>)]

\* lines 115-118
EffortWarnings(found, cfg) ==
  LET silent(issue) ==
        LET e == extractEffortDays(issue.Unknowns, CustomField(cfg.EffortCustomFieldID))
        IN  e[2] /\ e[1][1] # 0
      noisy == SelectSeq(found, LAMBDA issue : ~silent(issue))
  IN  [k \in DOMAIN noisy |->
         [format |-> "Warning: Ticket %s: %s has missing or 0 effort\n",
          args |-> <<noisy[k].Key, noisy[k].Summary>>]]

\* what a step of GetTickets leaves alone
clientFrame == <<GroupByEpic, MilestoneDone, idCounter, pc, scenarioID,
                 assigneeToResourceID, staffResources, childResourceRefs, jiraKeyToTaskID,
                 taskPtrs, epicToChildRefs, epicTasks, epicMilestones, tasks, refs,
                 scenario, run, first, issued, serializeVars, commandVars, matching>>

\* lines 84-147: the search and the loop over the issues it returned
SearchAndMap ==
  /\ clientPC = "search"
  /\ \E ok \in BOOLEAN :
       IF ok
       THEN /\ issues' = Search(matching, 0, MaxResults)
            /\ tickets' = [k \in DOMAIN issues' |-> TicketOf(issues'[k], loaded.cfg)]
            /\ stdout' = stdout \o EffortWarnings(issues', loaded.cfg)
            /\ clientPC' = "epics"
            /\ UNCHANGED clientErr
       ELSE /\ clientErr' = "search failed"
            /\ clientPC' = "returned"
            /\ UNCHANGED <<issues, tickets, stdout>>
  /\ UNCHANGED <<epics, clientFrame>>

\* lines 191-196
EpicOf(key) ==
  [Key |-> key, Summary |-> "Epic " \o key,
   Link |-> "https://jira.example.com/rest/api/2/issue/" \o key,
   Assignee |-> "", Status |-> "In Progress", EffortDays |-> <<0, 1>>,
   EpicLink |-> "", DependencyKeys |-> <<>>]

\* lines 149-200: the epics are searched by key; the server answers with the
\* epics it has, or the search fails and only a warning is printed
FetchEpics ==
  /\ clientPC = "epics"
  /\ LET uniqueEpics == {tickets[k].EpicLink : k \in DOMAIN tickets} \ {""}
     IN  IF loaded.cfg.EpicLinkCustomFieldID # "" /\ uniqueEpics # {}
         THEN \/ \E answered \in SUBSET uniqueEpics :
                   /\ epics' = [key \in answered |-> EpicOf(key)]
                   /\ UNCHANGED stdout
              \/ /\ epics' = EmptyMap
                 /\ stdout' = Append(stdout,
                                     [format |-> "Warning: Failed to fetch epic details: %v\n",
                                      args |-> <<"search failed">>])
         ELSE epics' = EmptyMap /\ UNCHANGED stdout
  /\ clientErr' = "nil"
  /\ clientPC' = "returned"
  /\ UNCHANGED <<issues, tickets, clientFrame>>

NextClient ==
  \/ SearchAndMap
  \/ FetchEpics

\* one call of GetTickets
SpecClient == InitClient /\ [][NextClient]_vars

\* the links that make a dependency, in link order
DependentOutward(links) ==
  SelectSeq(links, LAMBDA l : l.Type.Name = "Dependent" /\ l.OutwardIssue # "nil")

(***************************************************************************)
(* C20: for every issue GetTickets returns, the ticket's DependencyKeys is *)
(* the sequence of the outward-issue keys of the issue's links whose type  *)
(* name is "Dependent" and that have an outward issue, in link order;      *)
(* links of another type and links with only an inward issue add nothing.  *)
(***************************************************************************)
C20_DependencyKeysFromDependentLinks ==
  (clientPC \in {"epics", "returned"} /\ clientErr # "search failed") =>
    /\ Len(tickets) = Len(issues)
    /\ \A k \in DOMAIN issues :
         LET links == DependentOutward(issues[k].IssueLinks)
         IN  /\ tickets[k].Key = issues[k].Key
             /\ tickets[k].DependencyKeys = [j \in DOMAIN links |-> links[j].OutwardIssue]

\* GetTickets returned an issue with a Dependent link, a link of another type
\* with an outward issue, and kept only the first as dependency
C20_Witness ==
  /\ clientPC = "returned"
  /\ clientErr = "nil"
  /\ \E k \in DOMAIN issues :
       /\ issues[k].IssueLinks = <<IssueLink("Blocks", "B", "nil"), IssueLink("Dependent", "C", "nil")>>
       /\ tickets[k].DependencyKeys = <<"C">>

ChildPlaces(sc, id) ==
  {place \in (DOMAIN sc.Tasks) \X (1..Len(sc.Tasks)) :
     /\ place[2] \in DOMAIN sc.Tasks[place[1]].ChildTasks
     /\ sc.Tasks[place[1]].ChildTasks[place[2]].IDRef = id}

(***************************************************************************)
(* C23: the child references of a built scenario form a tree rooted at the *)
(* synthetic root group: every task other than the root is referenced as a *)
(* child exactly once, by the root or by one epic group; the root is       *)
(* nobody's child; only group tasks have children, and no leaf or          *)
(* milestone task carries child references.                                *)
(***************************************************************************)
C23_ChildReferencesFormTree ==
  Built =>
    LET ts == scenario.Tasks
        rootID == scenario.TopTask.IDRef
    IN  /\ \A a, b \in DOMAIN ts : ts[a].ID = ts[b].ID => a = b
        /\ Cardinality({a \in DOMAIN ts : ts[a].ID = rootID}) = 1
        /\ ChildPlaces(scenario, rootID) = {}
        /\ \A a \in DOMAIN ts :
             /\ ts[a].ChildTasks # <<>> => ts[a].Type = "group"
             /\ ts[a].Type \in {"", "milestone"} => ts[a].ChildTasks = <<>>
             /\ \A c \in DOMAIN ts[a].ChildTasks : ts[a].ChildTasks[c].IDRef \in TaskIDs(scenario)
             /\ ts[a].ID # rootID =>
                  /\ Cardinality(ChildPlaces(scenario, ts[a].ID)) = 1
                  /\ \A place \in ChildPlaces(scenario, ts[a].ID) :
                       LET parent == ts[place[1]]
                       IN  /\ parent.Type = "group"
                           /\ parent.ID # ts[a].ID
                           /\ \/ parent.ID = rootID
                              \/ /\ ts[a].Type = ""
                                 /\ \E q \in ChildPlaces(scenario, parent.ID) :
                                      ts[q[1]].ID = rootID

\* a tree of depth two: an epic group under the root holds a leaf, and the
\* root also holds a leaf of its own, the epic's milestone and Done
C23_Witness ==
  /\ Built
  /\ GroupByEpic
  /\ MilestoneDone
  /\ Len(tickets) = 2
  /\ tickets[1].EpicLink = "E1"
  /\ tickets[2].EpicLink = ""
  /\ Len(scenario.Tasks) = 6
  /\ Len(RootTask(scenario).ChildTasks) = 4
  /\ Len(EpicGroups(scenario)[1].ChildTasks) = 1

(***************************************************************************)
(* C21: GetTickets paginates: it returns every issue that matches the JQL, *)
(* asking for further pages when there are more matches than one page      *)
(* (MaxResults) holds.                                                     *)
(***************************************************************************)
C21_EveryMatchIsReturned ==
  (clientPC = "returned" /\ clientErr = "nil") =>
    /\ Len(tickets) = Len(matching)
    /\ \A k \in DOMAIN tickets : tickets[k].Key = matching[k].Key
====
